---------------------------- MODULE Spec2Model ----------------------------
(***************************************************************************)
(* The crossword CSP solver of "Week 3 Optimization/crossword/generate.py" *)
(* (class CrosswordCreator): node consistency, AC-3 and backtracking       *)
(* search over a puzzle model (slots, overlaps, neighbours, vocabulary).   *)
(*                                                                         *)
(* Words are sequences of letters; Python's 0-based index k of a word w is *)
(* w[k + 1] here.  Python sets and dicts keyed by slots iterate in an      *)
(* order the program does not control (string hashing is randomised): the  *)
(* slot order is drawn once in Init (variable "order"), every other set    *)
(* iteration is a choice made by the action that iterates.                 *)
(***************************************************************************)
EXTENDS Integers, Sequences, FiniteSets, TLC

(* ------------------------------ bounds --------------------------------- *)

\* Rows and columns of the grid the structures live in.
Height == 3
Width == 3
\* Largest vocabulary drawn.
MaxWords == 4
MaxArcs == 2
MaxArcWords == 3

Alphabet == {"A", "B"}
WordLens == {2, 3}
\* The words a vocabulary file may hold.
WordPool == UNION {[1..n -> Alphabet] : n \in WordLens}

\* The fillable cells of the structures solved (row, column; 0-based).
Structures ==
    { {<<0, 0>>, <<0, 1>>, <<0, 2>>},
      {<<0, 0>>, <<0, 1>>, <<0, 2>>, <<1, 1>>, <<2, 1>>},
      {<<0, 0>>, <<0, 1>>, <<2, 0>>, <<2, 1>>},
      {<<0, 0>>, <<1, 0>>, <<1, 1>>, <<1, 2>>, <<2, 2>>} }

(* --------------------------- puzzle model ------------------------------ *)
(* The puzzle model (module crossword: Variable, Crossword) is the solver's *)
(* collaborator; it is modelled from its contract: slots are the maximal   *)
(* runs of more than one fillable cell, overlaps maps every ordered pair   *)
(* of distinct slots to the indices of their shared cell or to None.       *)

ACROSS == "across"
DOWN == "down"

\* The absent overlap (Python None); a defined overlap is a pair <<i, j>>.
None == <<>>

RECURSIVE RunLength(_, _, _, _, _)
\* Number of consecutive fillable cells from (r, c) in direction (dr, dc).
RunLength(cells, r, c, dr, dc) ==
    IF <<r, c>> \in cells /\ r < Height /\ c < Width
    THEN 1 + RunLength(cells, r + dr, c + dc, dr, dc)
    ELSE 0

\* The slots of a structure: maximal runs of more than one fillable cell.
Variables(cells) ==
    LET starts == (0..(Height - 1)) \X (0..(Width - 1))
        across == {[i |-> s[1], j |-> s[2], direction |-> ACROSS,
                    length |-> RunLength(cells, s[1], s[2], 0, 1)] :
                   s \in {t \in starts : t \in cells /\ <<t[1], t[2] - 1>> \notin cells}}
        down == {[i |-> s[1], j |-> s[2], direction |-> DOWN,
                  length |-> RunLength(cells, s[1], s[2], 1, 0)] :
                 s \in {t \in starts : t \in cells /\ <<t[1] - 1, t[2]>> \notin cells}}
    IN  {v \in across \cup down : v.length > 1}

\* The cells of a slot, in word order.
Cells(v) ==
    [k \in 1..v.length |->
        <<v.i + (IF v.direction = DOWN THEN k - 1 ELSE 0),
          v.j + (IF v.direction = ACROSS THEN k - 1 ELSE 0)>>]

\* The entry of crossword.overlaps for (v1, v2): the 0-based indices of the
\* shared cell in the two words, or None.
SharedCell(v1, v2) ==
    LET c1 == Cells(v1)
        c2 == Cells(v2)
        common == {p \in (1..Len(c1)) \X (1..Len(c2)) : c1[p[1]] = c2[p[2]]}
    IN  IF common = {} THEN None
        ELSE LET p == CHOOSE q \in common : TRUE IN <<p[1] - 1, p[2] - 1>>

VARIABLES
    crossword,     \* [variables, words, overlaps]: the slots, the
                   \* vocabulary and the overlap of every ordered pair of
                   \* distinct slots
    order,         \* iteration order of crossword.variables (and of the
                   \* dicts built from it: domains, overlaps)
    domains,       \* self.domains: slot -> set of words
    calls,         \* the calls the driver has still to make
    pc,            \* position inside the current call
    queue,         \* ac3's worklist of arcs
    ac3Entry,      \* domains at the entry of each ac3 call made
    ac3Result,     \* result of each ac3 call that returned
    assignment,    \* the dict passed down the backtrack recursion
    stack,         \* the backtrack activations, innermost last: the slot
                   \* selected, the values of the ordered list still to
                   \* come, the assignment at entry
    noneLog,       \* assignment at entry and at exit of each backtrack
                   \* call that returned None
    returned,      \* what solve returned: "no" (not yet), "assignment", "None"
    probe          \* the last method called on its own by the driver, with
                   \* its arguments and what it returned

vars == <<crossword, order, domains, calls, pc, queue, ac3Entry, ac3Result,
          assignment, stack, noneLog, returned, probe>>

\* crossword.overlaps[v1, v2]
Overlaps(v1, v2) == crossword.overlaps[<<v1, v2>>]

\* crossword.neighbors(var)
Neighbors(var) ==
    {v \in crossword.variables \ {var} : Overlaps(v, var) # None}

\* The sequences that enumerate a finite set once each.
Orderings(S) ==
    {f \in [1..Cardinality(S) -> S] : \A a, b \in 1..Cardinality(S) : a # b => f[a] # f[b]}

(* ------------------------------ Init ----------------------------------- *)

\* The puzzle model of a structure and a vocabulary.
Crossword(cells, words) ==
    [variables |-> Variables(cells),
     words |-> words,
     overlaps |-> [p \in {q \in Variables(cells) \X Variables(cells) : q[1] # q[2]} |->
                      SharedCell(p[1], p[2])]]

\* __init__: every domain is a copy of the whole vocabulary.
InitDomains(cw) == [var \in cw.variables |-> cw.words]

\* A freshly constructed CrosswordCreator, on a structure and a vocabulary
\* of at most MaxWords words of the pool.
InitPuzzleFrom(pool) ==
    /\ \E cells \in Structures :
       \E words \in {W \in SUBSET pool : Cardinality(W) <= MaxWords} :
          crossword = Crossword(cells, words)
    /\ order \in Orderings(crossword.variables)
    /\ domains = InitDomains(crossword)
    /\ pc = "call"
    /\ queue = <<>>
    /\ ac3Entry = <<>>
    /\ ac3Result = <<>>
    /\ assignment = <<>>
    /\ stack = <<>>
    /\ noneLog = <<>>
    /\ returned = "no"
    /\ probe = [method |-> "none"]

InitPuzzle == InitPuzzleFrom(WordPool)

\* solve(): enforce_node_consistency(), ac3(), backtrack(dict()).
solve == <<"enforce_node_consistency", "ac3", "backtrack">>

Init == InitPuzzle /\ calls = solve

(* ------------------------- node consistency ---------------------------- *)

\* enforce_node_consistency without its filter.
NodeConsistentKeepsAll(var, domain) == domain

\* enforce_node_consistency removing only the words that are too long.
NodeConsistentKeepsShorter(var, domain) == {value \in domain : Len(value) <= var.length}

\* The domain of var after the loop of enforce_node_consistency.
NodeConsistent(var, domain) == {value \in domain : Len(value) = var.length}

enforce_node_consistency ==
    /\ pc = "call" /\ calls # <<>> /\ Head(calls) = "enforce_node_consistency"
    /\ domains' = [var \in DOMAIN domains |-> NodeConsistent(var, domains[var])]
    /\ calls' = Tail(calls)
    /\ UNCHANGED <<crossword, order, pc, queue, ac3Entry, ac3Result,
                   assignment, stack, noneLog, returned, probe>>

(* ----------------------------- AC-3 ------------------------------------ *)

\* An index expression word[k] (k 0-based) raises IndexError.
IndexError(word, k) == k >= Len(word)

\* Some order of the two domain sets makes revise(x, y) index a word
\* outside its length: both loops have a value to visit, and some value_x is
\* too short for i or some value_y is too short for j.
ReviseCanRaise(doms, x, y) ==
    LET overlap == Overlaps(x, y) IN
    /\ overlap # None
    /\ doms[x] # {}
    /\ doms[y] # {}
    /\ \/ \E value_x \in doms[x] : IndexError(value_x, overlap[1])
       \/ \E value_y \in doms[y] : IndexError(value_y, overlap[2])

RECURSIVE AnyCorresponding(_, _, _, _)
\* any(value_x[i] == value_y[j] for value_y in self.domains[y]), the set
\* visited in the order of the list domain_y: it stops at the first value_y
\* that agrees, and raises at the first index outside a word.
AnyCorresponding(value_x, domain_y, i, j) ==
    IF domain_y = <<>> THEN "False"
    ELSE IF IndexError(value_x, i) \/ IndexError(Head(domain_y), j) THEN "IndexError"
    ELSE IF value_x[i + 1] = Head(domain_y)[j + 1] THEN "True"
    ELSE AnyCorresponding(value_x, Tail(domain_y), i, j)

RECURSIVE ReviseLoop(_, _, _, _, _, _)
\* The for loop of revise over the values still to visit, domain_x, with the
\* values of y visited in the order domain_y: the values removed so far are
\* out of remaining, and stay out when an exception ends the loop.
ReviseLoop(domain_x, domain_y, i, j, remaining, revised) ==
    IF domain_x = <<>>
    THEN [raised |-> FALSE, domain |-> remaining, revised |-> revised]
    ELSE LET has_corresponding_value == AnyCorresponding(Head(domain_x), domain_y, i, j)
         IN  IF has_corresponding_value = "IndexError"
             THEN [raised |-> TRUE, domain |-> remaining, revised |-> revised]
             ELSE IF has_corresponding_value = "False"
             THEN ReviseLoop(Tail(domain_x), domain_y, i, j,
                             remaining \ {Head(domain_x)}, TRUE)
             ELSE ReviseLoop(Tail(domain_x), domain_y, i, j, remaining, revised)

\* has_corresponding_value computed with all() in place of any().
HasCorrespondingValueAll(value_x, domain_y, i, j) ==
    \A value_y \in domain_y : value_x[i + 1] = value_y[j + 1]

\* has_corresponding_value of revise: some value_y agrees with value_x at
\* the overlap.
HasCorrespondingValue(value_x, domain_y, i, j) ==
    \E value_y \in domain_y : value_x[i + 1] = value_y[j + 1]

\* revise keeping the supported values of y in place of those of x.
ReviseKeepsValuesOfY(doms, x, y) ==
    LET overlap == Overlaps(x, y) IN
    IF overlap # None
    THEN {value_y \in doms[y] :
            \E value_x \in doms[x] : value_x[overlap[1] + 1] = value_y[overlap[2] + 1]}
    ELSE doms[x]

\* self.domains[x] after revise(x, y).
revise(doms, x, y) ==
    LET overlap == Overlaps(x, y) IN
    IF overlap # None
    THEN {value_x \in doms[x] :
            HasCorrespondingValue(value_x, doms[y], overlap[1], overlap[2])}
    ELSE doms[x]

\* revise returning True whenever the two slots overlap.
ReviseReturnsOverlap(doms, x, y) == Overlaps(x, y) # None

\* The value revise(x, y) returns: whether it removed a value.
ReviseReturns(doms, x, y) == revise(doms, x, y) # doms[x]

\* What a call of revise(x, y) can come to: whether it raised IndexError,
\* self.domains[x] when it ended, and the flag revised.  When no word can be
\* indexed outside its length the call returns, and what it returns does not
\* depend on the order in which the sets are visited; otherwise every order
\* of the two sets gives one outcome.
ReviseOutcomes(doms, x, y) ==
    IF ~ReviseCanRaise(doms, x, y)
    THEN {[raised |-> FALSE, domain |-> revise(doms, x, y),
           revised |-> ReviseReturns(doms, x, y)]}
    ELSE {ReviseLoop(domain_x, domain_y, Overlaps(x, y)[1], Overlaps(x, y)[2],
                     doms[x], FALSE) :
            domain_x \in Orderings(doms[x]), domain_y \in Orderings(doms[y])}

\* The arcs ac3 starts from when arcs is None: the keys of
\* crossword.overlaps, every ordered pair of distinct slots, in the order the
\* nested loops over crossword.variables inserted them.
RECURSIVE Flatten(_)
Flatten(ss) == IF ss = <<>> THEN <<>> ELSE Head(ss) \o Flatten(Tail(ss))

DefaultArcs ==
    Flatten([a \in 1..Len(order) |->
        LET others == SelectSeq(order, LAMBDA v : v # order[a])
        IN  [b \in 1..Len(others) |-> <<order[a], others[b]>>]])

\* The emptiness test of ac3 negated.
DomainWipedOutNegated(domain) == Cardinality(domain) # 0

\* The emptiness test of ac3 off by one.
DomainWipedOutAtMostOne(domain) == Cardinality(domain) <= 1

\* The test of ac3 that ends it with False, on the revised domain of x.
DomainWipedOut(domain) == Cardinality(domain) = 0

\* ac3 appending no arc after a revision.
RequeuedNothing(x, y) == {}

\* ac3 appending only the arc back from y after a revision.
RequeuedOnlyY(x, y) == Neighbors(x) \cap {y}

\* The slots z whose arcs (z, x) ac3 appends after a revision of x against y.
Requeued(x, y) == Neighbors(x) \ {y}

ac3_begin ==
    /\ pc = "call" /\ calls # <<>> /\ Head(calls) = "ac3"
    /\ queue' = DefaultArcs
    /\ ac3Entry' = Append(ac3Entry, domains)
    /\ pc' = "ac3_loop"
    /\ UNCHANGED <<crossword, order, domains, calls, ac3Result,
                   assignment, stack, noneLog, returned, probe>>

\* The arc lists a caller may pass to ac3: lists of at most MaxArcs keys of
\* crossword.overlaps, repeats allowed.
ArcLists ==
    UNION {[1..n -> {a \in crossword.variables \X crossword.variables : a[1] # a[2]}] :
             n \in 0..MaxArcs}

\* ac3(arcs) entered with a list of arcs given by the caller.
ac3_begin_arcs ==
    /\ pc = "call" /\ calls # <<>> /\ Head(calls) = "ac3(arcs)"
    /\ \E arcs \in ArcLists :
          /\ queue' = arcs
          /\ probe' = [method |-> "ac3", arcs |-> arcs]
    /\ ac3Entry' = Append(ac3Entry, domains)
    /\ pc' = "ac3_loop"
    /\ UNCHANGED <<crossword, order, domains, calls, ac3Result,
                   assignment, stack, noneLog, returned>>

\* The list without the arc taken from it.
PoppedNothing(q, k) == q

\* queue after queue.pop(k - 1): the list without its k-th arc.
Popped(q, k) == SubSeq(q, 1, k - 1) \o SubSeq(q, k + 1, Len(q))

\* One iteration of the while loop on the k-th arc of the worklist: take it
\* out, revise, then return False on an empty domain or append the arcs of
\* the other neighbours.
ac3_take(k) ==
    /\ pc = "ac3_loop" /\ queue # <<>>
    /\ LET x == queue[k][1]
           y == queue[k][2]
       IN  \E call \in ReviseOutcomes(domains, x, y) :
           /\ domains' = [domains EXCEPT ![x] = call.domain]
           /\ IF call.raised
              THEN /\ pc' = "raised"
                   /\ queue' = Popped(queue, k)
                   /\ UNCHANGED <<calls, ac3Result>>
              ELSE IF call.revised /\ DomainWipedOut(call.domain)
              THEN /\ ac3Result' = Append(ac3Result, FALSE)
                   /\ calls' = Tail(calls)
                   /\ pc' = "call"
                   /\ queue' = Popped(queue, k)
              ELSE /\ \E zs \in Orderings(IF call.revised THEN Requeued(x, y) ELSE {}) :
                        queue' = Popped(queue, k) \o [n \in 1..Len(zs) |-> <<zs[n], x>>]
                   /\ UNCHANGED <<calls, ac3Result, pc>>
    /\ UNCHANGED <<crossword, order, ac3Entry, assignment, stack, noneLog, returned, probe>>

\* The while body of ac3: queue.pop(0) takes the front arc.
ac3_iterate == ac3_take(1)

\* The while body with the arc taken from any place of the worklist.
ac3_take_any == \E k \in 1..Len(queue) : ac3_take(k)

\* The queue is empty: ac3 returns True.
ac3_exhausted ==
    /\ pc = "ac3_loop" /\ queue = <<>>
    /\ ac3Result' = Append(ac3Result, TRUE)
    /\ calls' = Tail(calls)
    /\ pc' = "call"
    /\ UNCHANGED <<crossword, order, domains, queue, ac3Entry,
                   assignment, stack, noneLog, returned, probe>>

(* ------------------------ backtracking search -------------------------- *)

\* assignment_complete(assignment)
assignment_complete(a) ==
    \A variable \in crossword.variables : variable \in DOMAIN a

\* set(assignment.values())
Values(a) == {a[variable] : variable \in DOMAIN a}

\* The conflict loops of consistent(assignment) index a word outside its
\* length when they come to the pair of keys items[p], items[q].
ConflictRaises(a, items, p, q) ==
    /\ p # q
    /\ Overlaps(items[p], items[q]) # None
    /\ \/ IndexError(a[items[p]], Overlaps(items[p], items[q])[1])
       \/ IndexError(a[items[q]], Overlaps(items[p], items[q])[2])

\* The conflict loops end, by return False or by an exception, when they
\* come to the pair of keys items[p], items[q].
ConflictStops(a, items, p, q) ==
    /\ p # q
    /\ Overlaps(items[p], items[q]) # None
    /\ \/ ConflictRaises(a, items, p, q)
       \/ a[items[p]][Overlaps(items[p], items[q])[1] + 1]
             # a[items[q]][Overlaps(items[p], items[q])[2] + 1]

\* consistent(assignment) ends by IndexError: the words are distinct, and
\* the first pair at which the nested loops over assignment.items() end,
\* in the order items of the keys of the dict, is one that indexes a word
\* outside its length.
ConsistentRaises(a, items) ==
    /\ Cardinality(Values(a)) = Cardinality(DOMAIN a)
    /\ \E p, q \in 1..Len(items) :
          /\ ConflictRaises(a, items, p, q)
          /\ \A r, t \in 1..Len(items) :
                (r < p \/ (r = p /\ t < q)) => ~ConflictStops(a, items, r, t)

\* consistent(assignment) cannot index a word outside its length, whatever
\* the order of the keys.
ConsistentCannotRaise(a) ==
    \A variable1, variable2 \in DOMAIN a :
        (variable1 # variable2 /\ Overlaps(variable1, variable2) # None) =>
           /\ ~IndexError(a[variable1], Overlaps(variable1, variable2)[1])
           /\ ~IndexError(a[variable2], Overlaps(variable1, variable2)[2])

\* consistent(assignment) without its word-uniqueness check.
ConsistentWithoutUniqueness(a) ==
    \A variable1, variable2 \in DOMAIN a :
        (variable1 # variable2 /\ Overlaps(variable1, variable2) # None) =>
           LET overlap == Overlaps(variable1, variable2)
           IN  a[variable1][overlap[1] + 1] = a[variable2][overlap[2] + 1]

\* consistent(assignment): the words are pairwise distinct and no two
\* overlapping slots disagree on their shared cell.
consistent(a) ==
    /\ Cardinality(Values(a)) = Cardinality(DOMAIN a)
    /\ \A variable1, variable2 \in DOMAIN a :
          (variable1 # variable2 /\ Overlaps(variable1, variable2) # None) =>
             LET overlap == Overlaps(variable1, variable2)
             IN  a[variable1][overlap[1] + 1] = a[variable2][overlap[2] + 1]

RECURSIVE Sum(_, _)
\* The sum of f[s] over the finite set S.
Sum(f, S) ==
    IF S = {} THEN 0
    ELSE LET s == CHOOSE t \in S : TRUE IN f[s] + Sum(f, S \ {s})

\* The count taken over the words equal to the value.
RuleOutCountEqual(var, a, value) ==
    Sum([neighbor \in Neighbors(var) |->
            IF neighbor \notin DOMAIN a /\ Overlaps(var, neighbor) # None
            THEN Cardinality({val \in domains[neighbor] : val = value})
            ELSE 0],
        Neighbors(var))

\* The count order_domain_values gives a value: over the neighbours of var
\* outside the assignment, the words of their domains other than the value.
RuleOutCount(var, a, value) ==
    Sum([neighbor \in Neighbors(var) |->
            IF neighbor \notin DOMAIN a /\ Overlaps(var, neighbor) # None
            THEN Cardinality({val \in domains[neighbor] : val # value})
            ELSE 0],
        Neighbors(var))

RECURSIVE SortByCount(_, _, _)
\* count_values.sort(key=count) on the values of the list domain: a stable
\* sort, a value goes behind the values before it of the same or lower count.
SortByCount(domain, var, a) ==
    IF domain = <<>> THEN <<>>
    ELSE LET before == SortByCount(SubSeq(domain, 1, Len(domain) - 1), var, a)
             value == domain[Len(domain)]
             place == Cardinality({k \in 1..Len(before) :
                          RuleOutCount(var, a, before[k]) <= RuleOutCount(var, a, value)})
         IN  SubSeq(before, 1, place) \o <<value>> \o SubSeq(before, place + 1, Len(before))

\* order_domain_values(var, assignment): the lists the stable sort by count
\* can give, from whatever order the domain set enumerates in.
order_domain_values(var, a) ==
    {SortByCount(domain, var, a) : domain \in Orderings(domains[var])}

\* The values that can come next in a list of order_domain_values(var, a)
\* whose values still to come are those of remaining: the ones of least
\* count.  Drawing the list one value at a time in this way gives exactly
\* the lists of order_domain_values.
NextValues(var, a, remaining) ==
    {value \in remaining :
        \A other \in remaining :
            RuleOutCount(var, a, value) <= RuleOutCount(var, a, other)}

\* select_unassigned_variable without its sort by degree.
SelectFirstOfSmallest(a) ==
    LET unassigned_variables == SelectSeq(order, LAMBDA var : var \notin DOMAIN a)
    IN  SelectSeq(unassigned_variables,
                  LAMBDA var : \A k \in 1..Len(unassigned_variables) :
                      Cardinality(domains[var]) <=
                          Cardinality(domains[unassigned_variables[k]]))[1]

\* select_unassigned_variable(assignment): stable sorts of the slots in dict
\* order, by domain size, then among the smallest by degree, descending.
select_unassigned_variable(a) ==
    LET unassigned_variables == SelectSeq(order, LAMBDA var : var \notin DOMAIN a)
        min_remaining_values ==
            CHOOSE n \in {Cardinality(domains[unassigned_variables[k]]) :
                            k \in 1..Len(unassigned_variables)} :
                \A k \in 1..Len(unassigned_variables) :
                    n <= Cardinality(domains[unassigned_variables[k]])
        tied_variables ==
            SelectSeq(unassigned_variables,
                      LAMBDA var : Cardinality(domains[var]) = min_remaining_values)
        highest ==
            SelectSeq(tied_variables,
                      LAMBDA var : \A k \in 1..Len(tied_variables) :
                          Cardinality(Neighbors(var)) >=
                              Cardinality(Neighbors(tied_variables[k])))
    IN  IF Len(tied_variables) = 1 THEN tied_variables[1] ELSE highest[1]

\* order_domain_values taking its values out of the domain set itself.
OrderingDrainsDomain(doms, var) == [doms EXCEPT ![var] = {}]

\* self.domains after select_unassigned_variable and order_domain_values:
\* both only read it, the list sorted is a copy of the domain of var.
DomainsAfterOrdering(doms, var) == doms

\* assignment[var] = value
Assign(a, var, value) == (var :> value) @@ a

\* backtrack without its del assignment[var].
UnassignSkipped(a, var) == a

\* del assignment[var]
Unassign(a, var) == [variable \in (DOMAIN a) \ {var} |-> a[variable]]

Top == stack[Len(stack)]

\* The keys of the dict assignment in the order it holds them once the
\* innermost activation has assigned its slot: each activation inserted its
\* own slot, the outermost first.
Items == [k \in 1..Len(stack) |-> stack[k].var]

\* A call of backtrack(assignment), from solve (with dict()) or from the loop
\* of the activation below: return the assignment if complete, else select a
\* slot and start the loop over its ordered values.
backtrack_enter ==
    /\ \/ pc = "call" /\ calls # <<>> /\ Head(calls) = "backtrack"
       \/ pc = "bt_call"
    /\ IF assignment_complete(assignment)
       THEN /\ returned' = "assignment"
            /\ stack' = <<>>
            /\ calls' = Tail(calls)
            /\ pc' = "call"
            /\ UNCHANGED domains
       ELSE /\ stack' = Append(stack,
                            [var |-> select_unassigned_variable(assignment),
                             remaining |-> domains[select_unassigned_variable(assignment)],
                             entry |-> assignment])
            /\ domains' = DomainsAfterOrdering(domains,
                                               select_unassigned_variable(assignment))
            /\ pc' = "bt_loop"
            /\ UNCHANGED <<returned, calls>>
    /\ UNCHANGED <<crossword, order, queue, ac3Entry, ac3Result,
                   assignment, noneLog, probe>>

\* One iteration of the for loop of the innermost activation: assign the
\* next value of the ordered list; recurse if the assignment is consistent,
\* else delete it.  When consistent raises, the value stays assigned.  When
\* it could index a word outside its length and does not raise, it has
\* returned False before it came to that word.
backtrack_try ==
    /\ pc = "bt_loop" /\ Top.remaining # {}
    /\ \E value \in NextValues(Top.var, Top.entry, Top.remaining) :
       LET tentative == Assign(assignment, Top.var, value) IN
       /\ stack' = [stack EXCEPT ![Len(stack)].remaining = @ \ {value}]
       /\ IF ConsistentRaises(tentative, Items)
          THEN /\ assignment' = tentative
               /\ pc' = "raised"
          ELSE IF ConsistentCannotRaise(tentative) /\ consistent(tentative)
          THEN /\ assignment' = tentative
               /\ pc' = "bt_call"
          ELSE /\ assignment' = Unassign(tentative, Top.var)
               /\ pc' = "bt_loop"
    /\ UNCHANGED <<crossword, order, domains, calls, queue, ac3Entry, ac3Result,
                   noneLog, returned, probe>>

\* The for loop of the innermost activation is over: it returns None, and
\* its caller (solve, or the loop below, which deletes its own tentative
\* value) goes on.
backtrack_fail ==
    /\ pc = "bt_loop" /\ Top.remaining = {}
    /\ noneLog' = <<[depth |-> Len(stack), entry |-> Top.entry, exit |-> assignment]>>
    /\ stack' = SubSeq(stack, 1, Len(stack) - 1)
    /\ IF Len(stack) = 1
       THEN /\ returned' = "None"
            /\ calls' = Tail(calls)
            /\ pc' = "call"
            /\ UNCHANGED assignment
       ELSE /\ assignment' = Unassign(assignment, stack[Len(stack) - 1].var)
            /\ UNCHANGED <<returned, calls, pc>>
    /\ UNCHANGED <<crossword, order, domains, queue, ac3Entry, ac3Result, probe>>

(* --------------------------- specifications ---------------------------- *)

\* solve() on a freshly constructed CrosswordCreator.
Next ==
    \/ enforce_node_consistency
    \/ ac3_begin
    \/ ac3_iterate
    \/ ac3_exhausted
    \/ backtrack_enter
    \/ backtrack_try
    \/ backtrack_fail

Spec == Init /\ [][Next]_vars

\* enforce_node_consistency(), then ac3() twice, on a fresh CrosswordCreator.
InitRerun == InitPuzzle /\ calls = <<"enforce_node_consistency", "ac3", "ac3">>

NextRerun ==
    \/ enforce_node_consistency
    \/ ac3_begin
    \/ ac3_iterate
    \/ ac3_exhausted

SpecRerun == InitRerun /\ [][NextRerun]_vars

\* The words of vocabularies in three letters: the words of length 2 that
\* join B to another letter, and the words of length 3 in A and B around
\* an A.
CrossingPool ==
    {<<"A", "B">>, <<"B", "A">>, <<"B", "C">>, <<"C", "B">>}
        \cup {word \in [1..3 -> {"A", "B"}] : word[2] = "A"}

\* enforce_node_consistency(), then ac3() or ac3(arcs) taking its arcs in any
\* order.
InitAnyOrder ==
    /\ InitPuzzleFrom(CrossingPool)
    /\ \/ calls = <<"enforce_node_consistency", "ac3">>
       \/ calls = <<"enforce_node_consistency", "ac3(arcs)">>

NextAnyOrder ==
    \/ enforce_node_consistency
    \/ ac3_begin
    \/ ac3_begin_arcs
    \/ ac3_take_any
    \/ ac3_exhausted

SpecAnyOrder == InitAnyOrder /\ [][NextAnyOrder]_vars

\* A call of revise(x, y) by the driver, on any two distinct slots.
call_revise ==
    /\ pc = "call" /\ calls # <<>> /\ Head(calls) = "revise"
    /\ \E x, y \in crossword.variables :
          /\ x # y
          /\ \E call \in ReviseOutcomes(domains, x, y) :
                /\ domains' = [domains EXCEPT ![x] = call.domain]
                /\ IF call.raised
                   THEN /\ pc' = "raised"
                        /\ UNCHANGED probe
                   ELSE /\ probe' = [method |-> "revise", x |-> x, y |-> y,
                                     before |-> domains, result |-> call.revised]
                        /\ UNCHANGED pc
    /\ UNCHANGED <<crossword, order, calls, queue, ac3Entry, ac3Result,
                   assignment, stack, noneLog, returned>>

\* enforce_node_consistency(), then any number of calls of revise.
InitRevise == InitPuzzle /\ calls = <<"enforce_node_consistency", "revise">>

NextRevise ==
    \/ enforce_node_consistency
    \/ call_revise

SpecRevise == InitRevise /\ [][NextRevise]_vars

\* The incomplete assignments: words of the vocabulary on some of the slots.
IncompleteAssignments ==
    UNION {[S -> crossword.words] :
             S \in (SUBSET crossword.variables) \ {crossword.variables}}

\* A call of select_unassigned_variable(assignment) by the driver.
call_select_unassigned_variable ==
    /\ pc = "call" /\ calls # <<>> /\ Head(calls) = "select_unassigned_variable"
    /\ \E a \in IncompleteAssignments :
          probe' = [method |-> "select_unassigned_variable", assignment |-> a,
                    result |-> select_unassigned_variable(a)]
    /\ calls' = Tail(calls)
    /\ UNCHANGED <<crossword, order, domains, pc, queue, ac3Entry, ac3Result,
                   assignment, stack, noneLog, returned>>

\* enforce_node_consistency() and ac3(), then select_unassigned_variable on
\* an incomplete assignment.
InitSelect ==
    /\ InitPuzzle
    /\ calls = <<"enforce_node_consistency", "ac3", "select_unassigned_variable">>

NextSelect ==
    \/ enforce_node_consistency
    \/ ac3_begin
    \/ ac3_iterate
    \/ ac3_exhausted
    \/ call_select_unassigned_variable

SpecSelect == InitSelect /\ [][NextSelect]_vars

\* The assignments order_domain_values tells apart: it reads only their
\* keys (neighbor not in assignment), so each set of slots stands once, a
\* word of the vocabulary on each of them.
Assignments ==
    LET words == IF crossword.words = {} THEN {}
                 ELSE {CHOOSE word \in crossword.words : TRUE}
    IN  UNION {[S -> words] : S \in SUBSET crossword.variables}

\* A call of order_domain_values(var, assignment) by the driver.
call_order_domain_values ==
    /\ pc = "call" /\ calls # <<>> /\ Head(calls) = "order_domain_values"
    /\ \E var \in crossword.variables, a \in Assignments :
          \E domain \in order_domain_values(var, a) :
              probe' = [method |-> "order_domain_values", var |-> var,
                        assignment |-> a, result |-> domain]
    /\ calls' = Tail(calls)
    /\ UNCHANGED <<crossword, order, domains, pc, queue, ac3Entry, ac3Result,
                   assignment, stack, noneLog, returned>>

\* enforce_node_consistency() and ac3(), then order_domain_values on a slot
\* and an assignment.
InitOrder ==
    /\ InitPuzzle
    /\ calls = <<"enforce_node_consistency", "ac3", "order_domain_values">>

NextOrder ==
    \/ enforce_node_consistency
    \/ ac3_begin
    \/ ac3_iterate
    \/ ac3_exhausted
    \/ call_order_domain_values

SpecOrder == InitOrder /\ [][NextOrder]_vars

\* enforce_node_consistency(), then ac3(arcs) on a list of the caller; the
\* while loop of ac3 is not interrupted, so every step that can be taken is
\* taken.  The vocabulary has at most MaxArcWords words.
InitArcs ==
    /\ InitPuzzleFrom(CrossingPool)
    /\ Cardinality(crossword.words) <= MaxArcWords
    /\ calls = <<"enforce_node_consistency", "ac3(arcs)">>

NextArcs ==
    \/ enforce_node_consistency
    \/ ac3_begin_arcs
    \/ ac3_iterate
    \/ ac3_exhausted

SpecArcs == InitArcs /\ [][NextArcs]_vars /\ WF_vars(NextArcs)

\* The driver has made all its calls.
Done == pc = "call" /\ calls = <<>>

(* ------------------------------ claims --------------------------------- *)

\* The slot pairs with a defined overlap.
Crossing == {p \in crossword.variables \X crossword.variables :
                p[1] # p[2] /\ Overlaps(p[1], p[2]) # None}

\* a is a complete assignment of vocabulary words of the right lengths,
\* pairwise distinct and agreeing on every overlap.
IsSolution(a) ==
    /\ DOMAIN a = crossword.variables
    /\ \A v \in crossword.variables : a[v] \in crossword.words /\ Len(a[v]) = v.length
    /\ \A v1, v2 \in crossword.variables : v1 # v2 => a[v1] # a[v2]
    /\ \A p \in Crossing :
          a[p[1]][Overlaps(p[1], p[2])[1] + 1] = a[p[2]][Overlaps(p[1], p[2])[2] + 1]

Solvable ==
    \E a \in [crossword.variables -> crossword.words] : IsSolution(a)

\* Every word of domain(X) has a word of domain(Y) agreeing at the overlap,
\* for every ordered pair (X, Y) of crossing slots.
ArcConsistent(doms) ==
    \A p \in Crossing :
        \A wx \in doms[p[1]] : \E wy \in doms[p[2]] :
            wx[Overlaps(p[1], p[2])[1] + 1] = wy[Overlaps(p[1], p[2])[2] + 1]

\* C1: an assignment returned by solve() covers every slot, its words are
\* pairwise distinct, and crossing slots carry the same letter in their
\* shared cell.
C1_ReturnedAssignmentConsistent ==
    returned = "assignment" =>
        /\ \A v \in crossword.variables : v \in DOMAIN assignment
        /\ \A v1, v2 \in crossword.variables : v1 # v2 => assignment[v1] # assignment[v2]
        /\ \A p \in Crossing :
              assignment[p[1]][Overlaps(p[1], p[2])[1] + 1]
                  = assignment[p[2]][Overlaps(p[1], p[2])[2] + 1]

\* solve() returned an assignment for a puzzle with crossing slots.
C1_Witness ==
    returned = "assignment" /\ Crossing # {} /\ Cardinality(crossword.variables) >= 3

\* C2: when a solution exists solve() ends with an assignment (not None, not
\* an exception), and it returns None only when no solution exists.
C2_Complete ==
    /\ ((Done \/ pc = "raised") /\ returned # "assignment") => ~Solvable
    /\ returned = "None" => ~Solvable

\* solve() returned a solution after at least one backtrack call failed.
C2_Witness ==
    returned = "assignment" /\ Solvable /\ noneLog # <<>> /\ Crossing # {}

\* C3: every word of a returned assignment is a vocabulary word as long as
\* its slot.
C3_ReturnedWordsFit ==
    returned = "assignment" =>
        \A v \in DOMAIN assignment :
            assignment[v] \in crossword.words /\ Len(assignment[v]) = v.length

\* solve() returned an assignment from a vocabulary that also holds a word
\* of another length.
C3_Witness ==
    /\ returned = "assignment"
    /\ \E v \in crossword.variables : \E w \in crossword.words : Len(w) # v.length

\* C4: once ac3() has returned False inside solve(), solve() raises
\* nothing, returns no assignment, and its result is None: the one
\* backtrack call selects a slot with no value to try, never recurses, and
\* solve() is never stuck before it has returned.
C4_Ac3FailureGivesNone ==
    (ac3Result # <<>> /\ ~ac3Result[1]) =>
        /\ pc # "raised"
        /\ returned # "assignment"
        /\ Done => returned = "None"
        /\ pc = "bt_loop" => (Len(stack) = 1 /\ Top.remaining = {})
        /\ pc # "bt_call"
        /\ Done \/ ENABLED Next

\* solve() has returned None after ac3() returned False.
C4_Witness ==
    Done /\ ac3Result = <<FALSE>> /\ returned = "None"

\* C5: a backtrack call that returns None leaves the assignment as it was
\* on entry; when solve() returns None the assignment is empty.
C5_NoneRestoresAssignment ==
    /\ noneLog # <<>> => noneLog[1].exit = noneLog[1].entry
    /\ returned = "None" => DOMAIN assignment = {}

\* A nested backtrack call that tried at least one value returned None.
C5_Witness ==
    /\ noneLog # <<>>
    /\ noneLog[1].depth >= 2
    /\ \A v \in crossword.variables : domains[v] # {}

\* C6: after ac3() with the default arcs returned True the domains are arc
\* consistent.
C6_Ac3TrueArcConsistent ==
    (ac3Result # <<>> /\ ac3Result[1]) => ArcConsistent(domains)

\* ac3() returned True after removing a word, leaving no domain empty.
C6_Witness ==
    /\ ac3Result = <<TRUE>>
    /\ domains # ac3Entry[1]
    /\ \A v \in crossword.variables : domains[v] # {}

\* C7: when ac3() returns False some domain is empty.
C7_Ac3FalseEmptyDomain ==
    (ac3Result # <<>> /\ ~ac3Result[Len(ac3Result)]) =>
        \E v \in crossword.variables : domains[v] = {}

\* ac3() returned False.
C7_Witness ==
    ac3Result = <<FALSE>> /\ Crossing # {}

\* C8: ac3() returns True only if no domain is empty when it returns.
C8_Ac3TrueNoEmptyDomain ==
    (ac3Result # <<>> /\ ac3Result[1]) =>
        \A v \in crossword.variables : domains[v] # {}

\* C9: from the return of enforce_node_consistency() on, every word of
\* every domain is as long as its slot.
C9_NodeConsistency ==
    (calls = <<>> \/ Head(calls) # "enforce_node_consistency") =>
        \A s \in crossword.variables : \A w \in domains[s] : Len(w) = s.length

\* The search runs on domains the filter has removed a word from.
C9_Witness ==
    /\ pc = "bt_loop"
    /\ \E s \in crossword.variables :
          domains[s] # {} /\ \E w \in crossword.words : Len(w) # s.length

\* C10 as stated: a second ac3() run removes no word and returns True.
C10_RerunIdempotentAlways ==
    /\ Len(ac3Entry) = 2 => domains = ac3Entry[2]
    /\ Len(ac3Result) = 2 => ac3Result[2]

\* C10: a second ac3() run on the domains left by an ac3() run that
\* returned True removes no word and returns True.
C10_RerunIdempotentAfterTrue ==
    (ac3Result # <<>> /\ ac3Result[1]) =>
        /\ Len(ac3Entry) = 2 => domains = ac3Entry[2]
        /\ Len(ac3Result) = 2 => ac3Result[2]

\* The second run returned, after a first run that removed a word and
\* returned True.
C10_Witness ==
    /\ Len(ac3Result) = 2
    /\ ac3Result[1]
    /\ ac3Entry[1] # ac3Entry[2]

RECURSIVE Ac3Fifo(_, _)
\* The result and the final domains of the while loop of ac3 run first in,
\* first out from the domains doms and the worklist q.
Ac3Fifo(doms, q) ==
    IF q = <<>> THEN [result |-> TRUE, domains |-> doms]
    ELSE LET x == q[1][1]
             y == q[1][2]
             domain_x == revise(doms, x, y)
             after == [doms EXCEPT ![x] = domain_x]
             revised == ReviseReturns(doms, x, y)
             zs == CHOOSE o \in Orderings(IF revised THEN Requeued(x, y) ELSE {}) : TRUE
         IN  IF revised /\ DomainWipedOut(domain_x)
             THEN [result |-> FALSE, domains |-> after]
             ELSE Ac3Fifo(after, Popped(q, 1) \o [n \in 1..Len(zs) |-> <<zs[n], x>>])

\* C11 as stated: from the same domains and the same initial arcs, those
\* of the problem or those of a caller, whatever the order in which ac3
\* takes the arcs from its worklist, it returns what the first-in-first-out
\* run returns, and when that is True it leaves the same domains.
C11_OrderIndependentAnyArcs ==
    ac3Result # <<>> =>
        LET arcs == IF probe.method = "ac3" THEN probe.arcs ELSE DefaultArcs
            fifo == Ac3Fifo(ac3Entry[1], arcs)
        IN  /\ ac3Result[1] = fifo.result
            /\ fifo.result => domains = fifo.domains

\* C11: from the same domains and all the arcs of the problem (arcs is
\* None), whatever the order in which ac3 takes the arcs from its worklist,
\* it returns what the first-in-first-out run returns, and when that is
\* True it leaves the same domains.
C11_OrderIndependent ==
    (ac3Result # <<>> /\ probe.method # "ac3") =>
        LET fifo == Ac3Fifo(ac3Entry[1], DefaultArcs) IN
        /\ ac3Result[1] = fifo.result
        /\ fifo.result => domains = fifo.domains

\* ac3 returned True after it removed words from two domains, on a puzzle
\* where a revision appends arcs.
C11_Witness ==
    /\ ac3Result = <<TRUE>>
    /\ probe.method # "ac3"
    /\ \E x, y \in crossword.variables :
          /\ x # y
          /\ domains[x] # ac3Entry[1][x]
          /\ domains[y] # ac3Entry[1][y]
          /\ Requeued(x, y) # {}

\* C12 as stated: whenever solve() returns None the domains are arc
\* consistent.
C12_NoneFullyPropagatedAlways ==
    returned = "None" => ArcConsistent(domains)

\* C12: whenever solve() returns None after its ac3() call returned True,
\* the domains are arc consistent.
C12_NoneFullyPropagatedAfterTrue ==
    (returned = "None" /\ ac3Result = <<TRUE>>) => ArcConsistent(domains)

\* solve() returned None although ac3() returned True, after ac3() removed
\* a word and left no domain empty.
C12_Witness ==
    /\ returned = "None"
    /\ ac3Result = <<TRUE>>
    /\ domains # ac3Entry[1]
    /\ \A v \in crossword.variables : domains[v] # {}

\* C13: no step of the search (backtrack and everything it calls) changes
\* the domain of any slot.
C13_SearchLeavesDomains ==
    [][(calls # <<>> /\ Head(calls) = "backtrack") => domains' = domains]_vars

\* The search is two calls deep after a nested call has returned None.
C13_Witness ==
    /\ pc = "bt_loop"
    /\ Len(stack) >= 2
    /\ noneLog # <<>>

\* C14: every domain is always a subset of the vocabulary, and every step
\* leaves each slot's domain a subset of what it was: no step of
\* enforce_node_consistency, revise or ac3 adds a word.
C14_DomainsOnlyShrink ==
    /\ [](\A v \in crossword.variables : domains[v] \subseteq crossword.words)
    /\ [][\A v \in crossword.variables : domains'[v] \subseteq domains[v]]_vars

\* Both enforce_node_consistency and ac3 have removed words.
C14_Witness ==
    /\ ac3Entry # <<>>
    /\ ac3Entry[1] # InitDomains(crossword)
    /\ domains # ac3Entry[1]

\* The words of doms[x] that no word of doms[y] matches at the overlap
\* (i, j) of x and y.
Unsupported(doms, x, y) ==
    {w \in doms[x] :
        ~\E v \in doms[y] : v[Overlaps(x, y)[2] + 1] = w[Overlaps(x, y)[1] + 1]}

\* C15: revise(X, Y) on overlapping slots removes from domain(X) exactly
\* the words no word of domain(Y) matches at the overlap, returns True iff
\* it removed one, and leaves every other domain as it was; on slots that
\* do not overlap it changes nothing and returns False.
C15_Revise ==
    probe.method = "revise" =>
        /\ \A z \in crossword.variables \ {probe.x} : domains[z] = probe.before[z]
        /\ IF Overlaps(probe.x, probe.y) # None
           THEN /\ domains[probe.x] =
                      probe.before[probe.x] \ Unsupported(probe.before, probe.x, probe.y)
                /\ probe.result <=> Unsupported(probe.before, probe.x, probe.y) # {}
           ELSE /\ domains[probe.x] = probe.before[probe.x]
                /\ probe.result = FALSE

\* revise removed some words of an overlapping slot and kept others.
C15_Witness ==
    /\ probe.method = "revise"
    /\ Overlaps(probe.x, probe.y) # None
    /\ probe.result
    /\ domains[probe.x] # {}

\* C16: from every puzzle, vocabulary and initial arc list, ac3 returns:
\* True with its worklist empty, or False with an empty domain.
C16_Ac3Terminates ==
    <>(/\ Done
       /\ Len(ac3Result) = 1
       /\ ac3Result[1] => queue = <<>>
       /\ ~ac3Result[1] => \E v \in crossword.variables : domains[v] = {})

\* The worklist holds an arc that was not in the caller's list: a revision
\* has re-enqueued it.
C16_Witness ==
    /\ probe.method = "ac3"
    /\ pc = "ac3_loop"
    /\ \E k \in 1..Len(queue) :
          \A n \in 1..Len(probe.arcs) : probe.arcs[n] # queue[k]

\* C17: on an incomplete assignment, select_unassigned_variable returns a
\* slot outside the assignment, of least domain size among the slots outside
\* it, and of most neighbours among those of that least size.
C17_SelectUnassignedVariable ==
    probe.method = "select_unassigned_variable" =>
        LET unassigned == crossword.variables \ DOMAIN probe.assignment
            size(v) == Cardinality(domains[v])
            degree(v) == Cardinality({z \in crossword.variables :
                                        z # v /\ Overlaps(v, z) # None})
        IN  /\ probe.result \in unassigned
            /\ \A u \in unassigned : size(probe.result) <= size(u)
            /\ \A u \in unassigned :
                  size(u) = size(probe.result) => degree(probe.result) >= degree(u)

\* The slot returned is not first in dict order among the unassigned slots
\* of least domain size: one of fewer neighbours stands before it.
C17_Witness ==
    /\ probe.method = "select_unassigned_variable"
    /\ probe.assignment # <<>>
    /\ \E k, n \in 1..Len(order) :
          /\ k < n
          /\ order[n] = probe.result
          /\ order[k] \notin DOMAIN probe.assignment
          /\ Cardinality(domains[order[k]]) = Cardinality(domains[probe.result])
          /\ Cardinality(Neighbors(order[k])) < Cardinality(Neighbors(probe.result))

\* The number of words of the domains of the neighbours of var outside the
\* assignment a that are not the word w, each neighbour counted apart.
NotEqualInNeighbours(var, a, w) ==
    Cardinality({p \in crossword.variables \X crossword.words :
                   /\ p[1] # var /\ Overlaps(var, p[1]) # None
                   /\ p[1] \notin DOMAIN a
                   /\ p[2] \in domains[p[1]]
                   /\ p[2] # w})

\* C18: order_domain_values(var, assignment) returns a list of the words of
\* domain(var), each once and nothing else, in non-decreasing order of the
\* number of words of the unassigned neighbours' domains not equal to them.
C18_OrderDomainValues ==
    probe.method = "order_domain_values" =>
        /\ Len(probe.result) = Cardinality(domains[probe.var])
        /\ {probe.result[k] : k \in 1..Len(probe.result)} = domains[probe.var]
        /\ \A k, n \in 1..Len(probe.result) :
              k < n =>
                 NotEqualInNeighbours(probe.var, probe.assignment, probe.result[k])
                    <= NotEqualInNeighbours(probe.var, probe.assignment, probe.result[n])

\* The list returned holds two words of different counts.
C18_Witness ==
    /\ probe.method = "order_domain_values"
    /\ \E k, n \in 1..Len(probe.result) :
          NotEqualInNeighbours(probe.var, probe.assignment, probe.result[k])
             < NotEqualInNeighbours(probe.var, probe.assignment, probe.result[n])
=============================================================================
